---- MODULE Spec2Model ----
(***************************************************************************)
(* A model of the arena allocator of src/src/lib.rs (Arena, ArenaAlloc)    *)
(* and of its owning handle of src/src/box.rs (ArenaBox).                  *)
(*                                                                         *)
(* Addresses are usize values of AddrBits bits.  Memory is a map from      *)
(* addresses to bytes; a byte is <<v, i>>, the i-th byte of the value with *)
(* identity v, or NoByte where nothing was written.  Every value that is   *)
(* handed to the allocator gets a fresh identity, and drops[v] counts the  *)
(* runs of its destructor.                                                 *)
(***************************************************************************)
EXTENDS Integers, Sequences, FiniteSets, TLC

\* ---------------------------------------------------------------- bounds
AddrBits == 5        \* width of usize in the model
MaxLength == 6       \* largest Arena::new(length)
MaxOps == 2          \* allocator calls in one behaviour
MaxGen == 2          \* begin_alloc calls in one behaviour
MaxItems == 3        \* longest slice / iterator handed to the bulk inserts
MaxHandles == 3      \* handles made in one behaviour, rebuilt ones included
MaxIter == 5         \* most items of an iterator behind a handle

AddrSpace == 2 ^ AddrBits
UsizeMax == AddrSpace - 1
Addr == 0 .. UsizeMax

\* Layout::new::<T>() of the element types used: two zero-sized types
\* (one of them with the alignment of u32, such as [u32; 0]), u8, u16, u32.
Layouts ==
    { [size |-> 0, align |-> 1], [size |-> 0, align |-> 4],
      [size |-> 1, align |-> 1], [size |-> 2, align |-> 2],
      [size |-> 4, align |-> 4] }

\* NonNull::<u8>::dangling(): the alignment of u8 as an address.
Dangling == 1

NoByte == <<0, 0>>

\* Layout::from_size_align(length, 1): the alignment the buffer is asked
\* with and released with.
BufferAlign == 1

VARIABLES
    buffer,           \* Arena.buffer
    length,           \* Arena.length
    allocated,        \* the buffer is an allocation of the global allocator
    overflow_checks,  \* the build panics on usize overflow ("on") or wraps
                      \* ("off"); "unknown" until an overflow showed which
    wild_traps,       \* a write outside the buffer traps ("yes") or goes
                      \* through ("no"); "unknown" until one showed which
    head,             \* ArenaAlloc.head
    last,             \* ArenaAlloc.last
    gen,              \* number of begin_alloc calls so far; 0: no cursor yet
    mem,              \* the bytes of the address space
    drops,            \* drops[v]: runs of the destructor of value v
    handles,          \* every ArenaBox made so far, by creation order
    log,              \* what every call so far returned, oldest first
    ops,              \* allocator calls so far
    status,           \* "running", "panicked", "fault" (a wild write trapped)
    iter,             \* the iterator a handle wraps: the items it still
                      \* holds (rest), and what the calls on the handle
                      \* returned so far (out, 0 for None)
    direct            \* the same iterator with the same calls made on it
                      \* directly

vars == <<buffer, length, allocated, overflow_checks, wild_traps, head, last,
          gen, mem, drops, handles, log, ops, status, iter, direct>>

\* what the last call returned
result == log[Len(log)]

\* ------------------------------------------------------ usize arithmetic
RECURSIVE BitAndN(_, _, _)
BitAndN(a, b, bits) ==
    IF bits = 0 THEN 0
    ELSE (a % 2) * (b % 2) + 2 * BitAndN(a \div 2, b \div 2, bits - 1)

\* a & b on usize
BitAnd(a, b) == BitAndN(a, b, AddrBits)

\* !a on usize
BitNot(a) == UsizeMax - a

\* a - b on usize as a build without overflow checks computes it
WrappingSub(a, b) == (a - b) % AddrSpace

\* ptr.add(n)
PtrAdd(p, n) == (p + n) % AddrSpace

\* (head + (align - 1)) & !(align - 1), after checked_add succeeded
RoundUp(h, align) == BitAnd(h + (align - 1), BitNot(align - 1))

\* Layout::new::<T>() in the place of Layout::array::<T>(n): room for one
\* element.
LayoutOfOne(layout, n) == [size |-> layout.size, align |-> layout.align]

\* Layout::array::<T>(n)
LayoutArray(layout, n) == [size |-> layout.size * n, align |-> layout.align]

\* ------------------------------------------------------- bump allocation
\* try_alloc_layout without the early return for a layout of size 0.
TryAllocLayoutNoZst(h, l, layout, checks) ==
    IF h + (layout.align - 1) > UsizeMax
    THEN [kind |-> "None", ptr |-> 0, head |-> h, ovf |-> "no"]
    ELSE LET nh == RoundUp(h, layout.align) IN
         IF l < nh \/ l - nh <= layout.size
         THEN [kind |-> "None", ptr |-> 0, head |-> nh, ovf |-> "no"]
         ELSE [kind |-> "Some", ptr |-> nh, head |-> PtrAdd(nh, layout.size),
               ovf |-> "no"]

\* try_alloc_layout that refuses an alignment above the one of the buffer.
TryAllocLayoutBounded(h, l, layout, checks) ==
    IF layout.size = 0
    THEN [kind |-> "Some", ptr |-> Dangling, head |-> h, ovf |-> "no"]
    ELSE IF layout.align > BufferAlign \/ l - h <= layout.size
    THEN [kind |-> "None", ptr |-> 0, head |-> h, ovf |-> "no"]
    ELSE [kind |-> "Some", ptr |-> h, head |-> PtrAdd(h, layout.size),
          ovf |-> "no"]

\* ArenaAlloc::try_alloc_layout on a cursor (h, l), in a build with or
\* without overflow checks: the returned option, the pointer, the head the
\* call leaves behind, and what became of an overflow of
\* "self.last as usize - self.head as usize" (ovf: "no", "panic", "wrap").
TryAllocLayout(h, l, layout, checks) ==
    IF layout.size = 0
    THEN [kind |-> "Some", ptr |-> Dangling, head |-> h, ovf |-> "no"]
    ELSE IF h + (layout.align - 1) > UsizeMax
    THEN [kind |-> "None", ptr |-> 0, head |-> h, ovf |-> "no"]
    ELSE LET nh == RoundUp(h, layout.align)
             o == IF l < nh THEN "wrap" ELSE "no"
         IN  IF l < nh /\ checks
             THEN [kind |-> "Panic", ptr |-> 0, head |-> nh, ovf |-> "panic"]
             ELSE IF WrappingSub(l, nh) <= layout.size
             THEN [kind |-> "None", ptr |-> 0, head |-> nh, ovf |-> o]
             ELSE [kind |-> "Some", ptr |-> nh,
                   head |-> PtrAdd(nh, layout.size), ovf |-> o]

\* ------------------------------------------------------------- memory
\* buffer .. buffer + length: the bytes the Arena owns
InBuffer(ptr, size) == buffer <= ptr /\ ptr + size <= buffer + length

\* ptr.write(value) for the value with identity v, size bytes long
WriteValue(memory, ptr, size, v) ==
    [a \in Addr |->
        IF (a - ptr) % AddrSpace < size
        THEN <<v, ((a - ptr) % AddrSpace) + 1>>
        ELSE memory[a]]

\* The bytes a reference to a value of this size at ptr reads.
ReadValue(memory, ptr, size) ==
    [i \in 1 .. size |-> memory[PtrAdd(ptr, i - 1)]]

\* The bytes of the value with identity v.
BytesOf(v, size) == [i \in 1 .. size |-> <<v, i>>]

\* The identity of the value whose bytes lie at ptr, 0 when the bytes there
\* are no whole value.  A zero-sized value has no bytes: its identity is the
\* one the owner knows (zst).
ValueAt(memory, ptr, size, zst) ==
    IF size = 0 THEN zst
    ELSE LET v == memory[ptr][1] IN
         IF v # 0 /\ ReadValue(memory, ptr, size) = BytesOf(v, size)
         THEN v ELSE 0

\* drop_in_place left out: no destructor runs.
NoDropInPlace(m, ptr, size, zst) == m

\* ptr.drop_in_place(): the destructor of the value at ptr runs.  Dropping
\* bytes that are no value is undefined.
DropInPlace(m, ptr, size, zst) ==
    LET v == ValueAt(m.mem, ptr, size, zst) IN
    IF v = 0 THEN [m EXCEPT !.status = "fault"]
    ELSE [m EXCEPT !.drops[v] = @ + 1]

\* ------------------------------------------------------ single insertion
\* The machine state the allocator calls work on.
Machine ==
    [head |-> head, mem |-> mem, drops |-> drops, status |-> status,
     kind |-> "None", ptr |-> 0, val |-> 0, n |-> 0, ovf |-> "no",
     wild |-> FALSE, called |-> 0]

\* ArenaAlloc::try_alloc::<T>(): the pointer of try_alloc_layout, cast.
TryAllocRaw(m, layout, checks) ==
    LET a == TryAllocLayout(m.head, last, layout, checks) IN
    [m EXCEPT !.head = a.head, !.kind = a.kind, !.ptr = a.ptr, !.ovf = a.ovf,
              !.n = 1,
              !.status = IF a.kind = "Panic" THEN "panicked" ELSE @]

\* The closure dropped without the value ever leaving it.
ForgetUnused(d) == Append(d, 0)

\* The closure of try_insert_with going out of scope uncalled: the value it
\* owns, the next identity of d, is dropped with it.
DropUnused(d) == Append(d, 1)

\* ArenaAlloc::try_insert_with(|| value), the closure owning a value the
\* caller made (try_insert): allocate, write on success, and on failure the
\* closure is dropped unused, and the value with it.  A write that lands
\* outside the buffer is undefined: it goes through, or it traps (trap).
TryInsertWith(m, layout, checks, trap) ==
    LET v == Len(m.drops) + 1
        made == Append(m.drops, 0)
        a == TryAllocLayout(m.head, last, layout, checks)
        o == IF a.ovf = "no" THEN m.ovf ELSE a.ovf
        w == ~InBuffer(a.ptr, layout.size) /\ layout.size > 0
    IN  CASE a.kind = "Some" ->
               IF w /\ trap
               THEN [m EXCEPT !.head = a.head, !.drops = made, !.ovf = o,
                              !.wild = TRUE, !.status = "fault",
                              !.kind = "Fault", !.val = v, !.n = 1,
                              !.called = @ + 1]
               ELSE [m EXCEPT !.head = a.head, !.drops = made, !.ovf = o,
                              !.wild = @ \/ w,
                              !.mem = WriteValue(m.mem, a.ptr, layout.size, v),
                              !.kind = "Some", !.ptr = a.ptr, !.val = v,
                              !.n = 1, !.called = @ + 1]
          [] a.kind = "None" ->
               [m EXCEPT !.head = a.head, !.drops = DropUnused(m.drops),
                         !.ovf = o, !.kind = "None", !.ptr = 0, !.val = v,
                         !.n = 1]
          [] a.kind = "Panic" ->
               [m EXCEPT !.head = a.head, !.drops = DropUnused(m.drops),
                         !.ovf = o, !.status = "panicked", !.kind = "Panic",
                         !.ptr = 0, !.val = v, !.n = 1]

\* try_insert_with that calls the producer before it allocates: the value
\* is made in any case, and dropped when there is no room for it.
TryInsertProducedEager(m, layout, checks, trap) ==
    LET v == Len(m.drops) + 1
        a == TryAllocLayout(m.head, last, layout, checks)
        w == ~InBuffer(a.ptr, layout.size) /\ layout.size > 0
    IN  CASE a.kind = "Some" ->
               IF w /\ trap
               THEN [m EXCEPT !.head = a.head, !.drops = Append(m.drops, 0),
                              !.ovf = a.ovf, !.wild = TRUE, !.status = "fault",
                              !.kind = "Fault", !.val = v, !.n = 1,
                              !.called = @ + 1]
               ELSE [m EXCEPT !.head = a.head, !.drops = Append(m.drops, 0),
                              !.ovf = a.ovf, !.wild = w,
                              !.mem = WriteValue(m.mem, a.ptr, layout.size, v),
                              !.kind = "Some", !.ptr = a.ptr, !.val = v,
                              !.n = 1, !.called = @ + 1]
          [] OTHER ->
               [m EXCEPT !.head = a.head, !.drops = Append(m.drops, 1),
                         !.ovf = a.ovf, !.kind = a.kind, !.ptr = 0, !.val = v,
                         !.n = 1, !.called = @ + 1,
                         !.status = IF a.kind = "Panic" THEN "panicked" ELSE @]

\* ArenaAlloc::try_insert_with(producer) for a producer that makes the value
\* when it is called: the value gets its identity at the call of value(),
\* after try_alloc has answered Some; on None the producer is dropped
\* uncalled and no value was made.
TryInsertProduced(m, layout, checks, trap) ==
    LET v == Len(m.drops) + 1
        a == TryAllocLayout(m.head, last, layout, checks)
        w == ~InBuffer(a.ptr, layout.size) /\ layout.size > 0
    IN  CASE a.kind = "Some" ->
               IF w /\ trap
               THEN [m EXCEPT !.head = a.head, !.drops = Append(m.drops, 0),
                              !.ovf = a.ovf, !.wild = TRUE, !.status = "fault",
                              !.kind = "Fault", !.val = v, !.n = 1,
                              !.called = @ + 1]
               ELSE [m EXCEPT !.head = a.head, !.drops = Append(m.drops, 0),
                              !.ovf = a.ovf, !.wild = w,
                              !.mem = WriteValue(m.mem, a.ptr, layout.size, v),
                              !.kind = "Some", !.ptr = a.ptr, !.val = v,
                              !.n = 1, !.called = @ + 1]
          [] a.kind = "None" ->
               [m EXCEPT !.head = a.head, !.ovf = a.ovf, !.kind = "None",
                         !.ptr = 0, !.val = 0, !.n = 1]
          [] a.kind = "Panic" ->
               [m EXCEPT !.head = a.head, !.ovf = a.ovf, !.kind = "Panic",
                         !.ptr = 0, !.val = 0, !.n = 1, !.status = "panicked"]

\* ArenaAlloc::try_insert(value)
TryInsertValue(m, layout, checks, trap) == TryInsertWith(m, layout, checks, trap)

\* ------------------------------------------------------------- handles
\* ArenaBox::from_raw(ptr): a handle over n values of one layout, the first
\* with identity val, made in generation g.
FromRaw(ptr, layout, n, slice, val, g) ==
    [ptr |-> ptr, layout |-> layout, n |-> n, slice |-> slice, val |-> val,
     gen |-> g, st |-> "Live"]

\* ArenaBox::empty_slice(): a handle over no element.
EmptySlice(layout, g) == FromRaw(Dangling, layout, 0, TRUE, 0, g)

\* element i (from 0) of what a handle points to: ptr.add(i)
ElemPtr(ptr, layout, i) == PtrAdd(ptr, i * layout.size)

\* Deref: the bytes of every element, as a reference through the handle
\* reads them.
Deref(h) ==
    [i \in 1 .. h.n |->
        ReadValue(mem, ElemPtr(h.ptr, h.layout, i - 1), h.layout.size)]

\* ------------------------------------------------------- bulk insertion
\* for i in 0..n_elements { ptr.add(i).drop_in_place() }, from element i on;
\* val is the identity of element 0 (read only for zero-sized elements).
RECURSIVE DropElems(_, _, _, _, _, _)
DropElems(m, ptr, layout, val, i, n_elements) ==
    IF i >= n_elements \/ m.status # "running" THEN m
    ELSE DropElems(DropInPlace(m, ElemPtr(ptr, layout, i), layout.size, val + i),
                   ptr, layout, val, i + 1, n_elements)

\* The loop of ArenaAlloc::try_insert_all over the items the iterator still
\* yields (left), after n_elements elements were inserted from ptr on.
RECURSIVE InsertRest(_, _, _, _, _, _, _, _)
InsertRest(m, layout, checks, trap, ptr, val, n_elements, left) ==
    IF left = 0
    THEN [m EXCEPT !.kind = "Some", !.ptr = ptr, !.val = val, !.n = n_elements]
    ELSE LET r == TryInsertValue(m, layout, checks, trap) IN
         CASE r.kind = "Some" ->
                InsertRest(r, layout, checks, trap, ptr, val, n_elements + 1,
                           left - 1)
           [] r.kind = "None" ->
                [DropElems(r, ptr, layout, val, 0, n_elements)
                    EXCEPT !.kind = "None", !.ptr = 0, !.val = val,
                           !.n = n_elements]
           [] OTHER -> [r EXCEPT !.val = val, !.n = n_elements]

\* try_insert_all that counts the elements from 0: the first is left out of
\* n_elements.
TryInsertAllFromZero(m, layout, checks, trap, n) ==
    IF n = 0 THEN [m EXCEPT !.kind = "Empty"]
    ELSE LET first == TryInsertValue(m, layout, checks, trap) IN
         IF first.kind = "Some"
         THEN InsertRest(first, layout, checks, trap, first.ptr, first.val, 0,
                         n - 1)
         ELSE [first EXCEPT !.n = 0]

\* ArenaAlloc::try_insert_all(items) for an iterator that yields n items.
\* kind "Empty" stands for Some(ArenaBox::empty_slice()).
TryInsertAllItems(m, layout, checks, trap, n) ==
    IF n = 0 THEN [m EXCEPT !.kind = "Empty"]
    ELSE LET first == TryInsertValue(m, layout, checks, trap) IN
         IF first.kind = "Some"
         THEN InsertRest(first, layout, checks, trap, first.ptr, first.val, 1,
                         n - 1)
         ELSE [first EXCEPT !.n = 0]

\* ArenaAlloc::try_insert_slice(slice) for a slice of n elements: one
\* allocation, then ptr::copy of the elements, whose copies get the
\* identities from Len(drops) + 1 on.
RECURSIVE CopyElems(_, _, _, _, _, _)
CopyElems(memory, ptr, layout, val, i, n) ==
    IF i >= n THEN memory
    ELSE CopyElems(WriteValue(memory, ElemPtr(ptr, layout, i), layout.size, val + i),
                   ptr, layout, val, i + 1, n)

TryInsertSliceItems(m, layout, checks, trap, n) ==
    LET whole == LayoutArray(layout, n)
        a == TryAllocLayout(m.head, last, whole, checks)
        v == Len(m.drops) + 1
        w == ~InBuffer(a.ptr, whole.size) /\ whole.size > 0
    IN  CASE a.kind = "Some" ->
               IF w /\ trap
               THEN [m EXCEPT !.head = a.head, !.ovf = a.ovf, !.wild = TRUE,
                              !.status = "fault", !.kind = "Fault", !.n = n]
               ELSE [m EXCEPT !.head = a.head, !.ovf = a.ovf, !.wild = w,
                              !.drops = m.drops \o [i \in 1 .. n |-> 0],
                              !.mem = CopyElems(m.mem, a.ptr, layout, v, 0, n),
                              !.kind = "Some", !.ptr = a.ptr, !.val = v, !.n = n]
          [] a.kind = "None" ->
               [m EXCEPT !.head = a.head, !.ovf = a.ovf, !.kind = "None",
                         !.n = n]
          [] a.kind = "Panic" ->
               [m EXCEPT !.head = a.head, !.ovf = a.ovf,
                         !.status = "panicked", !.kind = "Panic", !.n = n]

\* .expect("Arena ran out of space") on what a try_ form returned
Expect(m) ==
    IF m.kind = "None" THEN [m EXCEPT !.kind = "Panic", !.status = "panicked"]
    ELSE m

\* ------------------------------------------------------------- actions
Running == status = "running" /\ allocated

CanCall == Running /\ gen > 0 /\ ops < MaxOps

NoLiveHandle == \A i \in DOMAIN handles : handles[i].st # "Live"

\* What a call returned: the call, the generation, its type argument, the
\* number of items it was given (asked) and took (n), the outcome, the
\* pointer, the first value's identity, and the head before and after the
\* call.
Returned(op, layout, asked, m) ==
    [op |-> op, gen |-> gen, layout |-> layout, asked |-> asked, n |-> m.n,
     kind |-> m.kind, ptr |-> m.ptr, val |-> m.val, before |-> head,
     after |-> m.head, called |-> m.called]

\* The builds a call may run in: the one an earlier overflow showed, or
\* either one.
Builds ==
    CASE overflow_checks = "unknown" -> BOOLEAN
      [] overflow_checks = "on" -> {TRUE}
      [] overflow_checks = "off" -> {FALSE}

\* Whether a write outside the buffer traps: as an earlier one showed, or
\* either way.
Traps ==
    CASE wild_traps = "unknown" -> BOOLEAN
      [] wild_traps = "yes" -> {TRUE}
      [] wild_traps = "no" -> {FALSE}

\* The outcomes of a call, given as call[checks, trap]: the build matters
\* only when the subtraction overflows, and the trap only when a write
\* leaves the buffer.
Outcomes(call) ==
    LET plain == call[FALSE, FALSE] IN
    {call[c, t] : c \in IF plain.ovf = "no" THEN {FALSE} ELSE Builds,
                  t \in IF plain.wild THEN Traps ELSE {FALSE}}

\* The variables an allocator call leaves as the machine m has them.  An
\* overflow in the call shows the build, a wild write whether it traps.
Commit(m) ==
    /\ head' = m.head
    /\ mem' = m.mem
    /\ drops' = m.drops
    /\ status' = m.status
    /\ ops' = ops + 1
    /\ overflow_checks' = CASE m.ovf = "no" -> overflow_checks
                            [] m.ovf = "panic" -> "on"
                            [] m.ovf = "wrap" -> "off"
    /\ wild_traps' = IF ~m.wild THEN wild_traps
                     ELSE IF m.status = "fault" THEN "yes" ELSE "no"
    /\ UNCHANGED <<buffer, length, allocated, last, gen,
                   iter, direct>>

\* The buffer may lie anywhere: Arena::new asks for alignment 1.  The bases
\* are an aligned one, an unaligned one, and the one that puts the buffer
\* at the top of the address space.
Bases(len) == {8, 9, UsizeMax - len}

NoLayout == [size |-> 0, align |-> 1]

\* No iterator is behind a handle.
NoIter == [rest |-> <<>>, out |-> <<>>]

\* The record of a call of Arena::new or of the drop of the Arena: the
\* pointer and the Layout::from_size_align(len, 1) that alloc or dealloc
\* gets.
SystemCall(op, kind, ptr, len, g) ==
    [op |-> op, gen |-> g, layout |-> [size |-> len, align |-> BufferAlign],
     asked |-> 0, n |-> 0, kind |-> kind, ptr |-> ptr, val |-> 0,
     before |-> 0, after |-> 0, called |-> 0]

\* let mut arena = Arena::new(length);
Init ==
    /\ length \in 1 .. MaxLength
    /\ buffer \in Bases(length)
    /\ allocated = TRUE
    /\ overflow_checks = "unknown"
    /\ wild_traps = "unknown"
    /\ head = 0
    /\ last = 0
    /\ gen = 0
    /\ mem = [a \in Addr |-> NoByte]
    /\ drops = <<>>
    /\ handles = <<>>
    /\ log = << SystemCall("new", "Some", buffer, length, 0) >>
    /\ ops = 0
    /\ status = "running"
    /\ iter = NoIter
    /\ direct = NoIter

\* The program before it calls Arena::new: there is no Arena.
NoArena ==
    /\ length = 0
    /\ buffer = 0
    /\ allocated = FALSE
    /\ overflow_checks = "unknown"
    /\ wild_traps = "unknown"
    /\ head = 0
    /\ last = 0
    /\ gen = 0
    /\ mem = [a \in Addr |-> NoByte]
    /\ drops = <<>>
    /\ handles = <<>>
    /\ log = <<>>
    /\ ops = 0
    /\ status = "unborn"
    /\ iter = NoIter
    /\ direct = NoIter

\* Arena::new that leaves out assert!(length > 0).
NewUnchecked(len, ptr) ==
    /\ status = "unborn"
    /\ IF ptr = 0
       THEN /\ status' = "panicked"
            /\ log' = << SystemCall("new", "Panic", 0, len, 0) >>
            /\ UNCHANGED <<buffer, length, allocated>>
       ELSE /\ status' = "running"
            /\ log' = << SystemCall("new", "Some", ptr, len, 0) >>
            /\ buffer' = ptr
            /\ length' = len
            /\ allocated' = TRUE
    /\ UNCHANGED <<overflow_checks, wild_traps, head, last, gen, mem, drops,
                   handles, ops,
                   iter, direct>>

\* Arena::new(len), where the system allocator answers ptr (0 is null):
\* assert!(length > 0), alloc, assert!(!buffer.is_null()).  A panic leaves
\* no Arena; otherwise the state is the one of Init.
New(len, ptr) ==
    /\ status = "unborn"
    /\ IF len = 0 \/ ptr = 0
       THEN /\ status' = "panicked"
            /\ log' = << SystemCall("new", "Panic", 0, len, 0) >>
            /\ UNCHANGED <<buffer, length, allocated>>
       ELSE /\ status' = "running"
            /\ log' = << SystemCall("new", "Some", ptr, len, 0) >>
            /\ buffer' = ptr
            /\ length' = len
            /\ allocated' = TRUE
    /\ UNCHANGED <<overflow_checks, wild_traps, head, last, gen, mem, drops,
                   handles, ops,
                   iter, direct>>

\* begin_alloc that keeps the head of the cursor before it.
BeginAllocKeepHead ==
    /\ Running
    /\ gen < MaxGen
    /\ NoLiveHandle
    /\ last' = PtrAdd(buffer, length - 1)
    /\ gen' = gen + 1
    /\ log' = Append(log, [op |-> "begin_alloc", gen |-> gen + 1,
                           layout |-> NoLayout, asked |-> 0, n |-> 0,
                           kind |-> "Some", ptr |-> buffer, val |-> 0,
                           before |-> head, after |-> head,
                           called |-> 0])
    /\ UNCHANGED <<buffer, length, allocated, overflow_checks, wild_traps, head,
                   mem, drops, handles, ops, status,
                   iter, direct>>

\* begin_alloc on a shared borrow: handles of the cursor before may be alive.
BeginAllocShared ==
    /\ Running
    /\ gen < MaxGen
    /\ head' = buffer
    /\ last' = PtrAdd(buffer, length - 1)
    /\ gen' = gen + 1
    /\ log' = Append(log, [op |-> "begin_alloc", gen |-> gen + 1,
                           layout |-> NoLayout, asked |-> 0, n |-> 0,
                           kind |-> "Some", ptr |-> buffer, val |-> 0,
                           before |-> head, after |-> buffer,
                           called |-> 0])
    /\ UNCHANGED <<buffer, length, allocated, overflow_checks, wild_traps, mem,
                   drops, handles, ops, status,
                   iter, direct>>

\* Arena::begin_alloc(&'a mut self).  The exclusive borrow is what the
\* compiler checks: no ArenaBox<'_> of an earlier borrow is alive.
BeginAlloc ==
    /\ Running
    /\ gen < MaxGen
    /\ NoLiveHandle
    /\ head' = buffer
    /\ last' = PtrAdd(buffer, length - 1)
    /\ gen' = gen + 1
    /\ log' = Append(log, [op |-> "begin_alloc", gen |-> gen + 1,
                           layout |-> NoLayout, asked |-> 0, n |-> 0,
                           kind |-> "Some", ptr |-> buffer, val |-> 0,
                           before |-> head, after |-> buffer,
                           called |-> 0])
    /\ UNCHANGED <<buffer, length, allocated, overflow_checks, wild_traps, mem,
                   drops, handles, ops, status,
                   iter, direct>>

\* ArenaAlloc::try_alloc::<T>()
TryAlloc(layout) ==
    /\ CanCall
    /\ \E m \in Outcomes([c \in BOOLEAN, t \in BOOLEAN |->
                           TryAllocRaw(Machine, layout, c)]) :
         /\ Commit(m)
         /\ log' = Append(log, Returned("try_alloc", layout, 1, m))
         /\ UNCHANGED handles

\* ArenaAlloc::try_insert(value)
TryInsert(layout) ==
    /\ CanCall
    /\ \E m \in Outcomes([c \in BOOLEAN, t \in BOOLEAN |->
                           TryInsertValue(Machine, layout, c, t)]) :
         /\ Commit(m)
         /\ log' = Append(log, Returned("try_insert", layout, 1, m))
         /\ handles' = IF m.kind = "Some"
                       THEN Append(handles,
                                   FromRaw(m.ptr, layout, 1, FALSE, m.val, gen))
                       ELSE handles

\* ArenaAlloc::insert(value)
Insert(layout) ==
    /\ CanCall
    /\ \E m \in Outcomes([c \in BOOLEAN, t \in BOOLEAN |->
                           Expect(TryInsertValue(Machine, layout, c, t))]) :
         /\ Commit(m)
         /\ log' = Append(log, Returned("insert", layout, 1, m))
         /\ handles' = IF m.kind = "Some"
                       THEN Append(handles,
                                   FromRaw(m.ptr, layout, 1, FALSE, m.val, gen))
                       ELSE handles

\* ArenaAlloc::try_insert_with(producer)
TryInsertWithProducer(layout) ==
    /\ CanCall
    /\ \E m \in Outcomes([c \in BOOLEAN, t \in BOOLEAN |->
                           TryInsertProduced(Machine, layout, c, t)]) :
         /\ Commit(m)
         /\ log' = Append(log, Returned("try_insert_with", layout, 1, m))
         /\ handles' = IF m.kind = "Some"
                       THEN Append(handles,
                                   FromRaw(m.ptr, layout, 1, FALSE, m.val, gen))
                       ELSE handles

\* ArenaAlloc::insert_with(producer)
InsertWith(layout) ==
    /\ CanCall
    /\ \E m \in Outcomes([c \in BOOLEAN, t \in BOOLEAN |->
                           Expect(TryInsertProduced(Machine, layout, c, t))]) :
         /\ Commit(m)
         /\ log' = Append(log, Returned("insert_with", layout, 1, m))
         /\ handles' = IF m.kind = "Some"
                       THEN Append(handles,
                                   FromRaw(m.ptr, layout, 1, FALSE, m.val, gen))
                       ELSE handles

\* ArenaAlloc::try_insert_slice(slice)
TryInsertSlice(layout, n) ==
    /\ CanCall
    /\ \E m \in Outcomes([c \in BOOLEAN, t \in BOOLEAN |->
                           TryInsertSliceItems(Machine, layout, c, t, n)]) :
         /\ Commit(m)
         /\ log' = Append(log, Returned("try_insert_slice", layout, n, m))
         /\ handles' = IF m.kind = "Some"
                       THEN Append(handles,
                                   FromRaw(m.ptr, layout, n, TRUE, m.val, gen))
                       ELSE handles

\* ArenaAlloc::try_insert_all(items)
TryInsertAll(layout, n) ==
    /\ CanCall
    /\ \E m \in Outcomes([c \in BOOLEAN, t \in BOOLEAN |->
                           TryInsertAllItems(Machine, layout, c, t, n)]) :
         /\ Commit(m)
         /\ log' = Append(log, Returned("try_insert_all", layout, n, m))
         /\ handles' = CASE m.kind = "Some" ->
                              Append(handles,
                                     FromRaw(m.ptr, layout, m.n, TRUE, m.val, gen))
                         [] m.kind = "Empty" ->
                              Append(handles, EmptySlice(layout, gen))
                         [] OTHER -> handles

\* A Drop for ArenaBox that also hands the buffer back to the system
\* allocator.
DropBoxDealloc(i) ==
    /\ Running
    /\ handles[i].st = "Live"
    /\ LET h == handles[i]
           m == DropElems(Machine, h.ptr, h.layout, h.val, 0, h.n)
       IN  /\ drops' = m.drops
           /\ status' = m.status
    /\ handles' = [handles EXCEPT ![i].st = "Destroyed"]
    /\ allocated' = FALSE
    /\ UNCHANGED <<buffer, length, overflow_checks, wild_traps, head, last,
                   gen, mem, log, ops,
                   iter, direct>>

\* impl Drop for ArenaBox: drop_in_place(self.buffer), which drops the value
\* or every element of the slice.
DropBox(i) ==
    /\ Running
    /\ handles[i].st = "Live"
    /\ LET h == handles[i]
           m == DropElems(Machine, h.ptr, h.layout, h.val, 0, h.n)
       IN  /\ drops' = m.drops
           /\ status' = m.status
    /\ handles' = [handles EXCEPT ![i].st = "Destroyed"]
    /\ UNCHANGED <<buffer, length, allocated, overflow_checks, wild_traps, head,
                   last, gen, mem, log, ops,
                   iter, direct>>

\* leak without ManuallyDrop: self is dropped as the reference is handed out.
LeakDropping(i) ==
    /\ Running
    /\ handles[i].st = "Live"
    /\ LET h == handles[i]
           m == DropElems(Machine, h.ptr, h.layout, h.val, 0, h.n)
       IN  /\ drops' = m.drops
           /\ status' = m.status
    /\ handles' = [handles EXCEPT ![i].st = "Escaped"]
    /\ UNCHANGED <<buffer, length, allocated, overflow_checks, wild_traps, head,
                   last, gen, mem, log, ops,
                   iter, direct>>

\* ArenaBox::leak(self): ManuallyDrop, and a plain reference is handed out.
Leak(i) ==
    /\ Running
    /\ handles[i].st = "Live"
    /\ handles' = [handles EXCEPT ![i].st = "Escaped"]
    /\ UNCHANGED <<buffer, length, allocated, overflow_checks, wild_traps, head,
                   last, gen, mem, drops, log, ops, status,
                   iter, direct>>

\* into_raw without ManuallyDrop: self is dropped as the pointer is handed
\* out.
IntoRawDropping(i) ==
    /\ Running
    /\ handles[i].st = "Live"
    /\ LET h == handles[i]
           m == DropElems(Machine, h.ptr, h.layout, h.val, 0, h.n)
       IN  /\ drops' = m.drops
           /\ status' = m.status
    /\ handles' = [handles EXCEPT ![i].st = "Raw"]
    /\ UNCHANGED <<buffer, length, allocated, overflow_checks, wild_traps, head,
                   last, gen, mem, log, ops,
                   iter, direct>>

\* ArenaBox::into_raw(self): ManuallyDrop, and the raw pointer is handed out.
IntoRaw(i) ==
    /\ Running
    /\ handles[i].st = "Live"
    /\ handles' = [handles EXCEPT ![i].st = "Raw"]
    /\ UNCHANGED <<buffer, length, allocated, overflow_checks, wild_traps, head,
                   last, gen, mem, drops, log, ops, status,
                   iter, direct>>

\* The handles made over the same values as handle i, after it.
Rebuilt(i) ==
    {j \in DOMAIN handles : j > i /\ handles[j].val = handles[i].val}

\* unsafe { ArenaBox::from_raw(ptr) } on the pointer into_raw handed out for
\* handle i, under the contract of from_raw: the pointer is still valid for
\* 'a (the cursor of the handle is the current one) and nothing else
\* accesses it (it was not made a handle before).
FromRawPtr(i) ==
    /\ Running
    /\ handles[i].st = "Raw"
    /\ handles[i].gen = gen
    /\ Rebuilt(i) = {}
    /\ Len(handles) < MaxHandles
    /\ LET h == handles[i] IN
         handles' = Append(handles,
                           FromRaw(h.ptr, h.layout, h.n, h.slice, h.val, h.gen))
    /\ UNCHANGED <<buffer, length, allocated, overflow_checks, wild_traps, head,
                   last, gen, mem, drops, log, ops, status,
                   iter, direct>>

\* impl Drop for Arena: dealloc(self.buffer, ...).  The Arena can be dropped
\* only once no borrow of it is alive.
DropArena ==
    /\ Running
    /\ NoLiveHandle
    /\ allocated' = FALSE
    /\ log' = Append(log, SystemCall("drop", "Some", buffer, length, gen))
    /\ UNCHANGED <<buffer, length, overflow_checks, wild_traps, head, last, gen,
                   mem, drops, handles, ops, status,
                   iter, direct>>

\* ------------------------------------------------- handles as iterators
\* T::next of the wrapped iterator (T: Iterator): the item at the front is
\* taken and returned, None (0) once nothing is left.
IterNext(it) ==
    IF it.rest = <<>> THEN [it EXCEPT !.out = Append(@, 0)]
    ELSE [rest |-> Tail(it.rest), out |-> Append(it.out, Head(it.rest))]

\* T::next_back of the wrapped iterator (T: DoubleEndedIterator): the item
\* at the back is taken and returned, None (0) once nothing is left.
IterNextBack(it) ==
    IF it.rest = <<>> THEN [it EXCEPT !.out = Append(@, 0)]
    ELSE [rest |-> SubSeq(it.rest, 1, Len(it.rest) - 1),
          out |-> Append(it.out, it.rest[Len(it.rest)])]

\* <ArenaBox<T> as Iterator>::next: self.as_mut().next().
BoxNext(it) == IterNext(it)

\* <ArenaBox<T> as DoubleEndedIterator>::next_back: self.as_mut().next().
BoxNextBack(it) == IterNext(it)

\* A handle made over an iterator of the items 1 .. n, by from_raw on a
\* value the caller owns or by an insert; the arena plays no part in the
\* calls that follow and is left out.
BoxedIter(n) ==
    /\ buffer = 0
    /\ length = 0
    /\ allocated = FALSE
    /\ overflow_checks = "unknown"
    /\ wild_traps = "unknown"
    /\ head = 0
    /\ last = 0
    /\ gen = 0
    /\ mem = [a \in Addr |-> NoByte]
    /\ drops = <<>>
    /\ handles = <<>>
    /\ log = <<>>
    /\ ops = 0
    /\ status = "iterating"
    /\ iter = [rest |-> [i \in 1 .. n |-> i], out |-> <<>>]
    /\ direct = iter

InitIter == \E n \in 0 .. MaxIter : BoxedIter(n)

\* Calls go on until the iterator has answered None once.
CanIterate ==
    /\ status = "iterating"
    /\ IF iter.out = <<>> THEN TRUE ELSE iter.out[Len(iter.out)] # 0

\* handle.next(), and next() on the iterator driven directly.
CallNext ==
    /\ CanIterate
    /\ iter' = BoxNext(iter)
    /\ direct' = IterNext(direct)
    /\ UNCHANGED <<buffer, length, allocated, overflow_checks, wild_traps, head,
                   last, gen, mem, drops, handles, log, ops, status>>

\* handle.next_back(), and next_back() on the iterator driven directly.
CallNextBack ==
    /\ CanIterate
    /\ iter' = BoxNextBack(iter)
    /\ direct' = IterNextBack(direct)
    /\ UNCHANGED <<buffer, length, allocated, overflow_checks, wild_traps, head,
                   last, gen, mem, drops, handles, log, ops, status>>

\* ------------------------------------------------------ specifications
\* The cursor and single values.
Next ==
    \/ BeginAlloc
    \/ \E layout \in Layouts : TryAlloc(layout)
    \/ \E layout \in Layouts : TryInsert(layout)
    \/ \E layout \in Layouts : Insert(layout)
    \/ \E i \in DOMAIN handles : DropBox(i)

Spec == Init /\ [][Next]_vars

\* Every call that allocates.
NextAlloc ==
    \/ BeginAlloc
    \/ \E layout \in Layouts : TryAlloc(layout)
    \/ \E layout \in Layouts : TryInsert(layout)
    \/ \E layout \in Layouts, n \in 0 .. MaxItems : TryInsertSlice(layout, n)
    \/ \E layout \in Layouts, n \in 0 .. MaxItems : TryInsertAll(layout, n)

SpecAlloc == Init /\ [][NextAlloc]_vars

\* Iterators collected into slices.
NextBulk ==
    \/ BeginAlloc
    \/ \E layout \in Layouts, n \in 0 .. MaxItems : TryInsertAll(layout, n)
    \/ \E i \in DOMAIN handles : DropBox(i)

SpecBulk == Init /\ [][NextBulk]_vars

\* The life of a handle.
NextBox ==
    \/ BeginAlloc
    \/ \E layout \in Layouts : TryInsert(layout)
    \/ \E i \in DOMAIN handles : DropBox(i)
    \/ \E i \in DOMAIN handles : Leak(i)
    \/ \E i \in DOMAIN handles : IntoRaw(i)
    \/ DropArena

SpecBox == Init /\ [][NextBox]_vars

\* Values made by a producer.
NextWith ==
    \/ BeginAlloc
    \/ \E layout \in Layouts : TryInsertWithProducer(layout)
    \/ \E layout \in Layouts : InsertWith(layout)
    \/ \E i \in DOMAIN handles : DropBox(i)

SpecWith == Init /\ [][NextWith]_vars

\* The life of an Arena, from before Arena::new to its drop.
NextNew ==
    \/ \E len \in 0 .. MaxLength : \E ptr \in Bases(len) \cup {0} : New(len, ptr)
    \/ BeginAlloc
    \/ \E layout \in Layouts : TryInsert(layout)
    \/ \E i \in DOMAIN handles : DropBox(i)
    \/ DropArena

SpecNew == NoArena /\ [][NextNew]_vars

\* Handles turned into raw pointers and back.
NextRaw ==
    \/ BeginAlloc
    \/ \E layout \in Layouts : TryInsert(layout)
    \/ \E i \in DOMAIN handles : IntoRaw(i)
    \/ \E i \in DOMAIN handles : FromRawPtr(i)
    \/ \E i \in DOMAIN handles : DropBox(i)

SpecRaw == Init /\ [][NextRaw]_vars

\* A handle over a double-ended iterator.
NextIter ==
    \/ CallNext
    \/ CallNextBack

SpecIter == InitIter /\ [][NextIter]_vars

\* ------------------------------------------------------------- claims
Inserts == {"try_insert", "insert"}

\* The calls of the log that are inserts of one value.
InsertCalls == {k \in DOMAIN log : log[k].op \in Inserts}

\* The handle the last call returned.
Newest == handles[Len(handles)]

\* The bytes a handle's elements hold in a memory.
DerefIn(memory, h) ==
    [i \in 1 .. h.n |->
        ReadValue(memory, ElemPtr(h.ptr, h.layout, i - 1), h.layout.size)]

\* The bytes of the values a handle was made over.
Owned(h) == [i \in 1 .. h.n |-> BytesOf(h.val + i - 1, h.layout.size)]

\* The aligned region of a request, from head h on, lies within the buffer.
Fits(h, layout) ==
    /\ buffer <= h
    /\ h + (layout.align - 1) <= UsizeMax
    /\ RoundUp(h, layout.align) + layout.size <= buffer + length

\* The bytes [p, p + size) and [q, q + qsize) have a byte in common.
Overlap(p, size, q, qsize) ==
    \E a \in Addr : (a - p) % AddrSpace < size /\ (a - q) % AddrSpace < qsize

\* C1: every insert whose aligned region still lies within the buffer
\* succeeds, and every handle an insert returned dereferences to the value
\* that was inserted, also after the later inserts.
C1_FittingInsertsSucceed ==
    /\ \A k \in InsertCalls :
         Fits(log[k].before, log[k].layout) => log[k].kind = "Some"
    /\ \A i \in DOMAIN handles :
         handles[i].st = "Live" => Deref(handles[i]) = Owned(handles[i])

\* C2: an insert fails only when its region would cross the end of the
\* buffer, and the region of a successful insert lies within the buffer and
\* shares no byte with a region the same cursor returned earlier.
C2_FailsOnlyAtBoundary ==
    /\ \A k \in InsertCalls :
         log[k].kind \in {"None", "Panic"} => ~Fits(log[k].before, log[k].layout)
    /\ \A i \in DOMAIN handles :
         LET h == handles[i] IN
         (h.gen = gen /\ h.layout.size > 0) =>
            /\ InBuffer(h.ptr, h.n * h.layout.size)
            /\ \A j \in 1 .. i - 1 :
                 handles[j].gen = gen =>
                    ~Overlap(h.ptr, h.n * h.layout.size,
                             handles[j].ptr, handles[j].n * handles[j].layout.size)

\* The calls that allocate.
AllocCalls ==
    {k \in DOMAIN log : log[k].op \in {"try_alloc", "try_insert", "insert",
                                       "try_insert_slice", "try_insert_all"}}

\* C3: every successful allocation of a non-zero-sized type with alignment
\* A (try_alloc, try_insert, try_insert_slice, try_insert_all), from any
\* cursor state and any buffer base address, returns an address that is
\* congruent to 0 modulo A.
C3_AllocationsAligned ==
    \A k \in AllocCalls :
       (log[k].kind = "Some" /\ log[k].layout.size > 0)
          => log[k].ptr % log[k].layout.align = 0

\* The handles made for the value with identity v.
HandlesOf(v) == {i \in DOMAIN handles : handles[i].val = v}

\* No byte of memory belongs to the value with identity v.
Unwritten(v) == \A a \in Addr : mem[a][1] # v

\* The call log[k] returned a handle at the address it reports, and while
\* that handle is live it dereferences to the whole value.
WrittenAndHeld(k) ==
    \E i \in HandlesOf(log[k].val) :
       /\ handles[i].ptr = log[k].ptr
       /\ handles[i].st = "Live" =>
             (Deref(handles[i]) = Owned(handles[i]) /\ drops[log[k].val] = 0)

\* C4: a single insertion has no partial-success state: when
\* try_insert(value) fails for lack of space, nothing is written to the
\* arena and the value is returned to the caller untouched (the allocator
\* does not drop it); when it succeeds the value is fully written and a
\* valid handle is returned.
C4_ValueReturnedOnFailure ==
    \A k \in DOMAIN log : log[k].op = "try_insert" =>
       /\ log[k].kind = "None" =>
             /\ Unwritten(log[k].val)
             /\ HandlesOf(log[k].val) = {}
             /\ drops[log[k].val] = 0
       /\ log[k].kind = "Some" => WrittenAndHeld(k)

\* C4, amended: when try_insert(value) returns None, nothing is written to
\* the arena, no handle is made, and the allocator has dropped the value
\* exactly once (the caller does not get it back); when it returns a handle,
\* the value is fully written at the returned address and the handle
\* dereferences to it.
C4_ValueDroppedOnFailure ==
    \A k \in DOMAIN log : log[k].op = "try_insert" =>
       /\ log[k].kind = "None" =>
             /\ Unwritten(log[k].val)
             /\ HandlesOf(log[k].val) = {}
             /\ drops[log[k].val] = 1
       /\ log[k].kind = "Some" => WrittenAndHeld(k)

\* C4 witness: an insert succeeded and its handle is live, then a try_insert
\* of a sized value returned None and that value was dropped.
C4_Witness ==
    /\ result.op = "try_insert"
    /\ result.kind = "None"
    /\ result.layout.size > 0
    /\ drops[result.val] = 1
    /\ \E i \in DOMAIN handles :
          handles[i].st = "Live" /\ handles[i].layout.size > 0

\* The calls of try_insert_all.
BulkCalls == {k \in DOMAIN log : log[k].op = "try_insert_all"}

\* The identities of the items the call log[k] took from its iterator: the
\* n it inserted, and the one that did not fit when it returned None.
Taken(k) ==
    log[k].val .. log[k].val + log[k].n - (IF log[k].kind = "None" THEN 0 ELSE 1)

\* C5: when try_insert_all fails on an element of the iterator, every
\* element already inserted in this run has had its destructor run exactly
\* once when None is returned, the element that did not fit has been dropped
\* exactly once too, no handle over a part of the sequence exists, and the
\* head is not rewound: it stays past the space of the dropped prefix.
C5_FailedBulkDropsPrefix ==
    \A k \in BulkCalls : log[k].kind = "None" =>
       /\ \A v \in Taken(k) : drops[v] = 1
       /\ \A i \in DOMAIN handles : handles[i].val \notin Taken(k)
       /\ WrappingSub(log[k].after, log[k].before) >= log[k].n * log[k].layout.size
       /\ k = Len(log) => head = log[k].after

\* C5 witness: try_insert_all returned None after it had inserted two sized
\* elements.
C5_Witness ==
    /\ result.op = "try_insert_all"
    /\ result.kind = "None"
    /\ result.n >= 2
    /\ result.layout.size > 0
    /\ \A v \in result.val .. result.val + result.n : drops[v] = 1

\* C6: when try_insert_all succeeds on an iterator that yields N >= 1
\* elements, the returned handle is a slice of exactly N elements, element i
\* of it is the i-th item the iterator yielded, at the first element's
\* address + i * size, the run takes exactly N * size bytes from the first
\* address on, and no element is dropped during the run: each is owned once,
\* by the slice handle.
C6_BulkInsertInOrder ==
    \A k \in BulkCalls : log[k].kind = "Some" =>
       /\ log[k].n = log[k].asked
       /\ log[k].layout.size > 0 =>
             log[k].after = ElemPtr(log[k].ptr, log[k].layout, log[k].asked)
       /\ Cardinality({i \in DOMAIN handles : handles[i].val \in Taken(k)}) = 1
       /\ \E i \in HandlesOf(log[k].val) : LET h == handles[i] IN
             /\ h.slice
             /\ h.ptr = log[k].ptr
             /\ h.n = log[k].asked
             /\ h.st = "Live" =>
                   /\ \A j \in 1 .. h.n :
                         ReadValue(mem, ElemPtr(h.ptr, h.layout, j - 1),
                                   h.layout.size)
                            = BytesOf(log[k].val + j - 1, h.layout.size)
                   /\ \A v \in Taken(k) : drops[v] = 0

\* C6 witness: a live slice handle over three sized elements that
\* try_insert_all returned.
C6_Witness ==
    /\ result.op = "try_insert_all"
    /\ result.kind = "Some"
    /\ result.asked = 3
    /\ result.layout.size > 0
    /\ Newest.st = "Live"
    /\ Newest.val = result.val

\* The inserts that were the first call of their cursor.
FirstInserts == {k \in InsertCalls : log[k - 1].op = "begin_alloc"}

\* C7: generation reuse.  After every handle of a cursor has been dropped,
\* begin_alloc yields a cursor whose head is the buffer start and whose
\* limit is the one of the first generation, whatever the cursor before
\* did; an insert that succeeded as the first insert of the first generation
\* succeeds again as the first insert of a later one, at the same address,
\* and its handle dereferences to the newly inserted value, never to the
\* value of the first generation.
C7_GenerationReuse ==
    /\ gen >= 1 => last = buffer + length - 1
    /\ \A k \in DOMAIN log : log[k].op = "begin_alloc" =>
          /\ log[k].after = buffer
          /\ k = Len(log) => (head = buffer /\ NoLiveHandle)
    /\ \A i \in FirstInserts : \A j \in FirstInserts :
          (/\ log[i].gen = 1
           /\ log[j].gen > 1
           /\ log[j].layout = log[i].layout
           /\ log[i].kind = "Some")
             => /\ log[j].kind = "Some"
                /\ log[j].ptr = log[i].ptr
                /\ \A h \in HandlesOf(log[j].val) : handles[h].st = "Live" =>
                      /\ Deref(handles[h]) = Owned(handles[h])
                      /\ log[j].layout.size > 0 =>
                            Deref(handles[h])[1]
                               # BytesOf(log[i].val, log[i].layout.size)

\* C7 witness: the second generation's first insert returned the address the
\* first generation's first insert had, and its handle is live.
C7_Witness ==
    /\ gen = 2
    /\ Len(log) \in FirstInserts
    /\ result.kind = "Some"
    /\ result.layout.size > 0
    /\ Newest.st = "Live"
    /\ Newest.val = result.val
    /\ \E i \in FirstInserts :
          /\ log[i].gen = 1
          /\ log[i].kind = "Some"
          /\ log[i].layout = result.layout
          /\ log[i].ptr = result.ptr

\* C8: there is one cursor, and no handle of one cursor is live when a later
\* cursor is begun: in every reachable state every live handle belongs to
\* the current generation, so no live handle shares memory with a handle of
\* a later cursor.
C8_LiveHandlesAreCurrent ==
    /\ \A i \in DOMAIN handles : handles[i].st = "Live" => handles[i].gen = gen
    /\ \A i \in DOMAIN handles : \A j \in DOMAIN handles :
          (handles[i].st = "Live" /\ handles[j].gen > handles[i].gen)
             => ~Overlap(handles[i].ptr, handles[i].n * handles[i].layout.size,
                         handles[j].ptr, handles[j].n * handles[j].layout.size)

\* C8 witness: a handle of the first generation was dropped, the second
\* generation was begun, and a handle of it is live at the same address.
C8_Witness ==
    /\ gen = 2
    /\ \E i \in DOMAIN handles : \E j \in DOMAIN handles :
          /\ handles[i].gen = 1
          /\ handles[i].st = "Destroyed"
          /\ handles[j].gen = 2
          /\ handles[j].st = "Live"
          /\ handles[j].layout.size > 0
          /\ handles[j].ptr = handles[i].ptr

\* The single allocations and insertions of a zero-sized type.
ZstCalls ==
    {k \in DOMAIN log : /\ log[k].op \in {"try_alloc", "try_insert", "insert"}
                        /\ log[k].layout.size = 0}

\* C9: an allocation or insertion of a zero-sized type always succeeds, in
\* every cursor state, a full arena and a cursor after failed allocations
\* included, and leaves the head of the cursor unchanged.
C9_ZeroSizedAlwaysFits ==
    \A k \in ZstCalls :
       /\ log[k].kind = "Some"
       /\ log[k].after = log[k].before
       /\ k = Len(log) => head = log[k].before

\* C9 witness: a sized allocation failed, and the insertion of a zero-sized
\* value after it succeeded.
C9_Witness ==
    /\ Len(log) \in ZstCalls
    /\ result.op = "try_insert"
    /\ result.kind = "Some"
    /\ log[Len(log) - 1].kind = "None"
    /\ log[Len(log) - 1].layout.size > 0
    /\ log[Len(log) - 1].gen = gen

\* The identities of the values a handle was made over.
ValuesOf(h) == h.val .. h.val + h.n - 1

\* C10: over any sequence of handle operations, dropping a live handle runs
\* the destructor of each value it wraps exactly once and changes nothing of
\* the allocation state of the bytes (head, limit, memory and the buffer
\* stay as they are; the buffer is released only by dropping the Arena,
\* which touches no handle); a handle that is Destroyed, Escaped or
\* Leaked-as-raw never changes again, and no destructor runs twice.
C10_DropRunsDestructorOnce ==
    [][ /\ \A i \in DOMAIN handles :
             /\ (handles[i].st = "Live" /\ handles'[i].st = "Destroyed") =>
                   /\ drops' = [v \in DOMAIN drops |->
                                  IF v \in ValuesOf(handles[i])
                                  THEN drops[v] + 1 ELSE drops[v]]
                   /\ UNCHANGED <<head, last, mem, allocated, buffer, length>>
             /\ handles[i].st # "Live" => handles'[i] = handles[i]
        /\ \A v \in DOMAIN drops' : drops'[v] <= 1
        /\ allocated' # allocated =>
              (NoLiveHandle /\ UNCHANGED <<handles, drops, head, mem>>)
      ]_vars

\* C10 witness: one handle was dropped and its destructor ran once, another
\* was leaked or turned into a raw pointer and its destructor never ran, and
\* the buffer is still allocated.
C10_Witness ==
    /\ allocated
    /\ \E i \in DOMAIN handles : \E j \in DOMAIN handles :
          /\ handles[i].st = "Destroyed"
          /\ drops[handles[i].val] = 1
          /\ handles[j].st \in {"Escaped", "Raw"}
          /\ drops[handles[j].val] = 0

\* C11: the round trip through a raw pointer.  For every handle h that was
\* turned into a raw pointer, into_raw ran no destructor, and the handle
\* from_raw makes of the pointer has the same address and dereferences to
\* the same value; over the conversion and the drop of the rebuilt handle
\* the destructor of the value runs exactly once in total.
C11_RawRoundTrip ==
    \A i \in DOMAIN handles : handles[i].st = "Raw" =>
       /\ Rebuilt(i) = {} => \A v \in ValuesOf(handles[i]) : drops[v] = 0
       /\ \A j \in Rebuilt(i) :
             /\ handles[j].ptr = handles[i].ptr
             /\ handles[j].n = handles[i].n
             /\ handles[j].st = "Live" =>
                   /\ Deref(handles[j]) = Owned(handles[i])
                   /\ \A v \in ValuesOf(handles[i]) : drops[v] = 0
             /\ handles[j].st = "Destroyed" =>
                   \A v \in ValuesOf(handles[i]) : drops[v] = 1

\* C11 witness: a handle over a sized value went through into_raw and
\* from_raw, the rebuilt handle was dropped, and the destructor ran once.
C11_Witness ==
    \E i \in DOMAIN handles : \E j \in Rebuilt(i) :
       /\ handles[i].st = "Raw"
       /\ handles[i].layout.size > 0
       /\ handles[j].st = "Destroyed"
       /\ drops[handles[i].val] = 1

\* C12: leak turns a live handle into a plain reference to the same value
\* for the same lifetime and suppresses the destructor: after leak the
\* destructor of the value never runs (not when the handle goes, not when
\* the generation ends, not when the Arena is dropped), and while the
\* cursor lives the reference reads the value and its bytes stay reserved:
\* no other handle of the cursor is given any of them.
C12_LeakSuppressesDestructor ==
    \A i \in DOMAIN handles : handles[i].st = "Escaped" =>
       /\ \A v \in ValuesOf(handles[i]) : drops[v] = 0
       /\ handles[i].gen = gen =>
             /\ Deref(handles[i]) = Owned(handles[i])
             /\ \A j \in DOMAIN handles \ {i} :
                   (handles[j].gen = gen /\ handles[j].layout.size > 0)
                      => ~Overlap(handles[i].ptr,
                                  handles[i].n * handles[i].layout.size,
                                  handles[j].ptr,
                                  handles[j].n * handles[j].layout.size)

\* C12 witness: a sized value was leaked, another sized value of the same
\* cursor got a handle, the cursor is gone and a new one was begun, and the
\* leaked value was not dropped.
C12_Witness ==
    \E i \in DOMAIN handles : \E j \in DOMAIN handles \ {i} :
       /\ handles[i].st = "Escaped"
       /\ handles[i].layout.size > 0
       /\ handles[i].gen < gen
       /\ handles[j].gen = handles[i].gen
       /\ handles[j].layout.size > 0
       /\ drops[handles[i].val] = 0

\* The try_ forms and the forms that panic.
TryForms == {"try_alloc", "try_insert", "try_insert_slice", "try_insert_all"}

PanicForms == {"insert"}

\* What try_alloc_layout answers to the request of the call log[k], from the
\* head the call found, in the build of this behaviour.
Asked(k) ==
    TryAllocLayout(log[k].before, last,
                   LayoutArray(log[k].layout, log[k].asked),
                   overflow_checks = "on")

\* The request of the call log[k] is one of non-zero size that the rest of
\* the buffer cannot hold.
NoSpace(k) ==
    /\ log[k].layout.size * log[k].asked > 0
    /\ ~Fits(log[k].before, LayoutArray(log[k].layout, log[k].asked))

\* C13: a try_ form returns None on insufficient space and never panics for
\* it; the form without try_ panics exactly when the try_ form would return
\* None, and otherwise returns what the try_ form returns and leaves the
\* cursor as the try_ form leaves it.
C13_TryFormsReturnNone ==
    \A k \in AllocCalls :
       /\ log[k].op \in TryForms => log[k].kind # "Panic"
       /\ (log[k].op \in TryForms \ {"try_insert_all"} /\ NoSpace(k))
             => log[k].kind = "None"
       /\ log[k].op \in PanicForms =>
             /\ log[k].kind = "Panic" <=> Asked(k).kind = "None"
             /\ log[k].kind # "Panic" =>
                   /\ log[k].kind = Asked(k).kind
                   /\ log[k].ptr = Asked(k).ptr
                   /\ log[k].after = Asked(k).head

\* The calls of try_insert_with.
WithCalls == {k \in DOMAIN log : log[k].op = "try_insert_with"}

\* C14: try_insert_with(producer) calls the producer only after the space
\* for the value was allocated: exactly once when the allocation succeeds,
\* and what the producer made is what the handle dereferences to; never
\* when the allocation fails, so that no value was made.
C14_ProducerCalledAfterAlloc ==
    \A k \in WithCalls :
       /\ log[k].kind = "Some" =>
             /\ log[k].called = 1
             /\ \E i \in HandlesOf(log[k].val) :
                   /\ handles[i].ptr = log[k].ptr
                   /\ handles[i].st = "Live" =>
                         Deref(handles[i]) = Owned(handles[i])
       /\ log[k].kind \in {"None", "Panic"} =>
             /\ log[k].called = 0
             /\ log[k].val = 0
             /\ k = Len(log) => Len(drops) = Cardinality({j \in 1 .. k - 1 : log[j].called = 1})

\* C14 witness: a producer was called and its sized value is behind a live
\* handle, and a later try_insert_with returned None without a call.
C14_Witness ==
    /\ Len(log) \in WithCalls
    /\ result.kind = "None"
    /\ result.called = 0
    /\ \E k \in WithCalls :
          /\ log[k].kind = "Some"
          /\ log[k].layout.size > 0
          /\ log[k].called = 1
          /\ \E i \in HandlesOf(log[k].val) : handles[i].st = "Live"

\* The calls that make one allocation of non-zero size with an alignment
\* above the one the buffer was allocated with.
OverAligned ==
    {k \in AllocCalls : /\ log[k].op # "try_insert_all"
                        /\ log[k].layout.align > BufferAlign
                        /\ log[k].layout.size * log[k].asked > 0}

\* The head a call found, rounded up to the alignment it asked.
Rounded(k) == RoundUp(log[k].before, log[k].layout.align)

SliceCalls == {k \in DOMAIN log : log[k].op = "try_insert_slice"}

\* C16: try_insert_slice(items) makes exactly one allocation, for
\* items.len() elements at the alignment of the element: it returns None
\* exactly when that allocation does, and on success it returns a handle
\* over a slice of items.len() elements, the i-th equal to items[i], and the
\* head has advanced by exactly the padding plus items.len() * size.
C16_SliceIsOneAllocation ==
    \A k \in SliceCalls :
       /\ log[k].kind = "None" <=> Asked(k).kind = "None"
       /\ log[k].after = Asked(k).head
       /\ log[k].kind = "Some" =>
             /\ Asked(k).kind = "Some"
             /\ log[k].ptr = Asked(k).ptr
             /\ log[k].after =
                   IF log[k].layout.size * log[k].asked = 0 THEN log[k].before
                   ELSE PtrAdd(Rounded(k), log[k].asked * log[k].layout.size)
             /\ \E i \in HandlesOf(log[k].val) : LET h == handles[i] IN
                   /\ h.slice
                   /\ h.ptr = log[k].ptr
                   /\ h.n = log[k].asked
                   /\ h.st = "Live" => Deref(h) = Owned(h)

\* C16 witness: a slice of three sized elements was inserted within the
\* buffer after an earlier allocation, and its handle is live.
C16_Witness ==
    /\ Len(log) \in SliceCalls
    /\ result.kind = "Some"
    /\ result.asked = 3
    /\ result.layout.size > 0
    /\ result.before > buffer
    /\ InBuffer(result.ptr, result.asked * result.layout.size)
    /\ Newest.val = result.val
    /\ Newest.st = "Live"

\* The releases of the buffer.
Releases == {k \in DOMAIN log : log[k].op = "drop"}

\* C17: Arena::new panics, and no Arena exists afterwards, when the length
\* is 0 or the system allocator supplies no buffer; for every length > 0
\* that it supplies, creation does not fail, and dropping the Arena, right
\* away or later, does not fail and releases the buffer exactly once, with
\* the pointer, the size and the alignment of the creation.
C17_CreateAndDestroy ==
    /\ log = <<>> <=> status = "unborn"
    /\ log # <<>> =>
          /\ log[1].op = "new"
          /\ log[1].kind = "Panic" <=> (log[1].layout.size = 0 \/ log[1].ptr = 0)
          /\ log[1].kind = "Panic" =>
                (status = "panicked" /\ ~allocated /\ Len(log) = 1)
          /\ log[1].kind # "Panic" =>
                /\ length = log[1].layout.size
                /\ buffer = log[1].ptr
                /\ allocated <=> Releases = {}
                /\ Cardinality(Releases) <= 1
                /\ \A k \in Releases :
                      /\ k = Len(log)
                      /\ log[k].ptr = log[1].ptr
                      /\ log[k].layout = log[1].layout
                      /\ log[k].layout.align = BufferAlign
                      /\ Len(log) = 2 => status = "running"

\* C17 witness: an Arena was created and dropped right away.
C17_Witness ==
    /\ Len(log) = 2
    /\ log[1].op = "new"
    /\ log[1].kind = "Some"
    /\ log[2].op = "drop"
    /\ ~allocated

\* C18: the cursor invariant.  In every state that successful and failed
\* allocations on a cursor reach, whatever the sizes, the alignments and the
\* base of the buffer, head <= last and buffer <= head <= buffer + length,
\* no call has moved head down, and the subtraction last - head of the
\* capacity check has never overflowed.
C18_CursorInvariant ==
    /\ gen >= 1 =>
          /\ head <= last
          /\ buffer <= head
          /\ head <= buffer + length
    /\ \A k \in AllocCalls : log[k].before <= log[k].after
    /\ overflow_checks = "unknown"

\* The single allocations that returned None.
FailedCalls ==
    {k \in AllocCalls : /\ log[k].op # "try_insert_all"
                        /\ log[k].kind = "None"}

\* C19: a failed allocation (try_alloc, try_insert or try_insert_slice
\* returning None) leaves head and last of the cursor as they were, so that
\* a request that would have succeeded before the failed attempt succeeds
\* after it.
C19_FailureLeavesCursor ==
    /\ gen >= 1 => last = buffer + length - 1
    /\ \A k \in FailedCalls :
          /\ log[k].after = log[k].before
          /\ \A layout \in Layouts :
                TryAllocLayout(log[k].before, last, layout, FALSE).kind = "Some"
                   => TryAllocLayout(log[k].after, last, layout, FALSE).kind = "Some"

\* C20: allocation is a pure capacity check that never wraps and never
\* panics on arithmetic.  When rounding head up to the alignment would
\* overflow the address width, the call returns None with the cursor as it
\* was; and no step of try_alloc_layout, the rounding addition, the
\* subtraction last - head, the advance head + size, overflows or wraps.
C20_NoArithmeticOverflow ==
    /\ overflow_checks = "unknown"
    /\ \A k \in AllocCalls :
          /\ log[k].kind # "Panic"
          /\ (/\ log[k].op # "try_insert_all"
              /\ log[k].layout.size * log[k].asked > 0
              /\ log[k].before + log[k].layout.align - 1 > UsizeMax)
                => (log[k].kind = "None" /\ log[k].after = log[k].before)
          /\ (log[k].op # "try_insert_all" /\ log[k].kind = "Some"
              /\ log[k].layout.size * log[k].asked > 0)
                => log[k].ptr + log[k].layout.size * log[k].asked <= UsizeMax

\* C21: the marker address try_alloc returns for a zero-sized type with
\* alignment A is not null and is congruent to 0 modulo A.
C21_ZeroSizedMarkerAligned ==
    \A k \in ZstCalls : (log[k].op = "try_alloc" /\ log[k].kind = "Some") =>
       /\ log[k].ptr # 0
       /\ log[k].ptr % log[k].layout.align = 0


\* C22: any interleaving of next and next_back calls on a handle over a
\* double-ended iterator returns the same items in the same order, and
\* leaves the wrapped iterator in the same state, as the same calls made
\* directly on the wrapped iterator.
C22_HandleDelegates ==
    /\ iter.out = direct.out
    /\ iter.rest = direct.rest

====
